---------------------------- MODULE Spec2Model ----------------------------
(***************************************************************************)
(* A model of the swisseph-fastapi service (src/main.py): the handlers of  *)
(* its eight data routes, the parsing of date and time strings, the pydantic *)
(* request and response classes they use, and the calls they make to the   *)
(* Swiss Ephemeris binding `swe`.                                          *)
(*                                                                         *)
(* Representation.  A Python str is a sequence of one-character strings,   *)
(* so that str.split, str.lower and int() are computed character by        *)
(* character.  A Python float that the handlers compute is kept as an      *)
(* exact fraction [num, den]; IEEE-754 rounding is not modelled.  The      *)
(* ephemeris library is outside the repository: every call to it is        *)
(* recorded in the calling worker's `calls` log with its arguments, and    *)
(* its outcome is either a value (a fixed stand-in depending only on the   *)
(* arguments) or a raised exception, chosen nondeterministically.          *)
(***************************************************************************)
EXTENDS Integers, Sequences, FiniteSets, TLC

(***************************************************************************)
(* Bounds of the model.                                                    *)
(***************************************************************************)
\* how many ephemeris calls may raise while one request is handled
MaxLibFailures == 2

(***************************************************************************)
(* Python strings.                                                         *)
(***************************************************************************)
DigitChars == <<"0", "1", "2", "3", "4", "5", "6", "7", "8", "9">>

IsDigit(c) == \E i \in 1..Len(DigitChars) : DigitChars[i] = c

DigitValue(c) == (CHOOSE i \in 1..Len(DigitChars) : DigitChars[i] = c) - 1

\* str(n) for n >= 0
RECURSIVE Digits(_)
Digits(n) == IF n < 10 THEN <<DigitChars[n + 1]>>
             ELSE Digits(n \div 10) \o <<DigitChars[(n % 10) + 1]>>

\* str(n).zfill(w): how a client writes the YYYY, MM, DD, HH fields
RECURSIVE ZeroPad(_, _)
ZeroPad(str, w) == IF Len(str) >= w THEN str ELSE ZeroPad(<<"0">> \o str, w)

\* "YYYY-MM-DD" and "HH:MM:SS" as a client writes them
FmtDate(y, m, d) == ZeroPad(Digits(y), 4) \o <<"-">> \o ZeroPad(Digits(m), 2)
                    \o <<"-">> \o ZeroPad(Digits(d), 2)

FmtTime(h, m, s) == ZeroPad(Digits(h), 2) \o <<":">> \o ZeroPad(Digits(m), 2)
                    \o <<":">> \o ZeroPad(Digits(s), 2)

\* str.split(sep): the pieces between the separators, empty pieces kept
RECURSIVE SplitFrom(_, _, _, _)
SplitFrom(str, sep, i, cur) ==
    IF i > Len(str) THEN <<cur>>
    ELSE IF str[i] = sep THEN <<cur>> \o SplitFrom(str, sep, i + 1, <<>>)
    ELSE SplitFrom(str, sep, i + 1, Append(cur, str[i]))

Split(str, sep) == SplitFrom(str, sep, 1, <<>>)

\* the digits of an int() literal, after its optional sign
Unsigned(tok) == IF Len(tok) > 0 /\ tok[1] \in {"+", "-"} THEN Tail(tok) ELSE tok

\* int(tok) does not raise ValueError (decimal digits with an optional sign;
\* the blanks and underscores int() also accepts are not in the alphabet)
IsIntLiteral(tok) ==
    /\ Len(Unsigned(tok)) > 0
    /\ \A i \in 1..Len(Unsigned(tok)) : IsDigit(Unsigned(tok)[i])

RECURSIVE DigitsValue(_)
DigitsValue(ds) == IF Len(ds) = 0 THEN 0
                   ELSE 10 * DigitsValue(SubSeq(ds, 1, Len(ds) - 1))
                        + DigitValue(ds[Len(ds)])

\* int(tok) for a literal
IntValue(tok) == IF Len(tok) > 0 /\ tok[1] = "-" THEN 0 - DigitsValue(Unsigned(tok))
                 ELSE DigitsValue(Unsigned(tok))

\* a, b, c = map(int, tokens): map is lazy, so int() runs on the tokens in
\* order as the unpacking draws them, and the unpacking draws a fourth one to
\* see that the iterator is exhausted
UnpackThreeInts(tokens) ==
    LET drawn == IF Len(tokens) < 4 THEN Len(tokens) ELSE 4
        bad   == {i \in 1..drawn : ~IsIntLiteral(tokens[i])}
    IN  IF bad # {}
          THEN [ok |-> FALSE, exc |-> "ValueError", msg |-> "invalid literal for int() with base 10"]
        ELSE IF Len(tokens) < 3
          THEN [ok |-> FALSE, exc |-> "ValueError", msg |-> "not enough values to unpack (expected 3)"]
        ELSE IF Len(tokens) > 3
          THEN [ok |-> FALSE, exc |-> "ValueError", msg |-> "too many values to unpack (expected 3)"]
        ELSE [ok |-> TRUE, val |-> <<IntValue(tokens[1]), IntValue(tokens[2]), IntValue(tokens[3])>>]

\* a slip in the divisor of the seconds: hour + minute/60.0 + second/60.0
DecimalHourSecondsAsMinutes(hour, minute, second) ==
    [num |-> 3600 * hour + 60 * minute + 60 * second, den |-> 3600]

\* hour + minute/60.0 + second/3600.0, as an exact fraction of an hour
DecimalHour(hour, minute, second) ==
    [num |-> 3600 * hour + 60 * minute + second, den |-> 3600]


UpperChars == <<"A", "B", "C", "D", "E", "F", "G", "H", "I", "J", "K", "L", "M",
                "N", "O", "P", "Q", "R", "S", "T", "U", "V", "W", "X", "Y", "Z">>

LowerChars == <<"a", "b", "c", "d", "e", "f", "g", "h", "i", "j", "k", "l", "m",
                "n", "o", "p", "q", "r", "s", "t", "u", "v", "w", "x", "y", "z">>

LowerChar(c) == IF \E i \in 1..Len(UpperChars) : UpperChars[i] = c
                  THEN LowerChars[CHOOSE i \in 1..Len(UpperChars) : UpperChars[i] = c]
                  ELSE c

\* str.lower()
Lower(str) == [i \in 1..Len(str) |-> LowerChar(str[i])]

(***************************************************************************)
(* The ephemeris binding `swe`: its constants, and stand-ins for the       *)
(* values its functions return.  A stand-in depends only on the call's     *)
(* arguments and gives every component a different value, so that a        *)
(* handler that drops, swaps or recomputes a component is told apart.      *)
(***************************************************************************)
SUN     == 0
MOON    == 1
MERCURY == 2
VENUS   == 3
MARS    == 4
JUPITER == 5
SATURN  == 6
URANUS  == 7
NEPTUNE == 8
PLUTO   == 9

FLG_SPEED == 256

\* swe.julday(year, month, day, hour): an opaque time coordinate
SweJulday(args) == [jd |-> <<args[1], args[2], args[3], args[4].num>>]

\* swe.calc_ut(jd, body, flags), swe.calc(jd, body): (longitude, latitude,
\* distance, longitude speed, latitude speed, distance speed)
SweCalc(args) ==
    LET body == args[2]
        t    == args[1].jd[3] + args[1].jd[4]
    IN  <<(100 * body + t) % 360, body - 4, 10 + body, 3 - body, 20 + body, 30 + body>>

\* swe.houses(jd, lat, lon, hsys): (cusps, ascmc)
SweHouses(args) ==
    LET base == (args[1].jd[3] + args[2] + args[3]) % 30
    IN  [cusps |-> [i \in 1..12 |-> base + 30 * (i - 1)],
         ascmc |-> [i \in 1..8 |-> base + 1 + 40 * (i - 1)]]

\* swe.get_ayanamsa(jd)
SweGetAyanamsa(args) == [ayanamsa |-> args[1].jd]

\* swe.sidtime(jd): a fraction, in units of 1/240 degree (one second of time)
SweSidtime(args) == [num |-> 43200, den |-> 240]

\* what a call returns when it succeeds
SweReturn(fn, args) ==
    CASE fn = "julday"       -> SweJulday(args)
      [] fn = "calc_ut"      -> SweCalc(args)
      [] fn = "calc"         -> SweCalc(args)
      [] fn = "houses"       -> SweHouses(args)
      [] fn = "get_ayanamsa" -> SweGetAyanamsa(args)
      [] fn = "sidtime"      -> SweSidtime(args)

\* str(e) of the exception a failing call raises: it names the call
SweMessage(fn, args) == [swe |-> fn, args |-> args]

\* the record of one call in a worker's log
SweCall(fn, args, ok) ==
    [fn |-> fn, args |-> args, ok |-> ok,
     ret |-> IF ok THEN SweReturn(fn, args) ELSE SweMessage(fn, args)]

(***************************************************************************)
(* pydantic: the request and response classes, each with the fields that   *)
(* are plainly typed, those annotated Optional[...] without a default, and *)
(* those with a default.  An Optional[...] field without a default is      *)
(* optional in pydantic 1 and required in pydantic 2; the repository pins  *)
(* neither.                                                                *)
(***************************************************************************)
None == "None"

RetrogradeMotionResponse ==
    [required |-> {"planet", "is_retrograde", "speed", "date"},
     optional |-> {}, defaults |-> {}]

RetrogradeMotionRequest ==
    [required |-> {"planet", "date"}, optional |-> {}, defaults |-> {}]

SolarEclipseResponse ==
    [required |-> {"eclipse_type", "date", "time_utc"},
     optional |-> {"magnitude", "central_duration", "visible_from"},
     defaults |-> {}]

SolarEclipseRequest ==
    [required |-> {"date"}, optional |-> {"latitude", "longitude"},
     defaults |-> {<<"search_forward", TRUE>>}]

LunarEclipseResponse ==
    [required |-> {"eclipse_type", "date", "time_utc"},
     optional |-> {"magnitude", "duration", "visible_from"},
     defaults |-> {}]

LunarEclipseRequest ==
    [required |-> {"date"}, optional |-> {"latitude", "longitude"},
     defaults |-> {<<"search_forward", TRUE>>}]

SiderealTimeResponse ==
    [required |-> {"date", "time_utc", "longitude", "sidereal_time",
                   "sidereal_time_deg", "type"},
     optional |-> {}, defaults |-> {}]

SiderealTimeRequest ==
    [required |-> {"date", "time_utc", "type"}, optional |-> {"longitude"},
     defaults |-> {}]

\* the fields of a class that take a default when not given, and the default
Defaulted(cls) == {p[1] : p \in cls.defaults}

DefaultOf(cls, f) == (CHOOSE p \in cls.defaults : p[1] = f)[2]

\* the fields of a class
Fields(cls) == cls.required \cup cls.optional \cup Defaulted(cls)

\* the fields a value of the class must be given
Required(cls, version) ==
    cls.required \cup (IF version = 2 THEN cls.optional ELSE {})

\* cls(**given): ValidationError when a required field is missing; fields the
\* class does not declare are ignored
Construct(cls, given, version) ==
    LET missing == Required(cls, version) \ DOMAIN given
    IN  IF missing # {}
          THEN [ok |-> FALSE, exc |-> "ValidationError", missing |-> missing]
          ELSE [ok |-> TRUE,
                obj |-> [f \in Fields(cls) |->
                           IF f \in DOMAIN given THEN given[f]
                           ELSE IF f \in Defaulted(cls) THEN DefaultOf(cls, f)
                           ELSE None]]

\* obj.name does not raise AttributeError
HasAttr(obj, name) == name \in DOMAIN obj

(***************************************************************************)
(* The requests the clients send.                                          *)
(***************************************************************************)
Years   == {7, 2025}
Months  == {5, 13}
Days    == {10, 31}
Hours   == {0, 16, 25}
Minutes == {0, 45}
Seconds == {0, 61}

WrittenDates == {FmtDate(y, m, d) : y \in Years, m \in Months, d \in Days}

WrittenTimes == {FmtTime(h, m, s) : h \in Hours, m \in Minutes, s \in Seconds}

\* "2025-05", "2025-05-10-01", "2025-0x-10", "2025/05/10", ""
MalformedDates ==
    {<<"2", "0", "2", "5", "-", "0", "5">>,
     <<"2", "0", "2", "5", "-", "0", "5", "-", "1", "0", "-", "0", "1">>,
     <<"2", "0", "2", "5", "-", "0", "x", "-", "1", "0">>,
     <<"2", "0", "2", "5", "/", "0", "5", "/", "1", "0">>,
     <<>>}

\* "16:45", "16:45:00:00", "16:4x:00", "16:45:", ""
MalformedTimes ==
    {<<"1", "6", ":", "4", "5">>,
     <<"1", "6", ":", "4", "5", ":", "0", "0", ":", "0", "0">>,
     <<"1", "6", ":", "4", "x", ":", "0", "0">>,
     <<"1", "6", ":", "4", "5", ":">>,
     <<>>}

\* "7:5:3", "-1:0:7": integer tokens that are not zero-padded, or signed
UnpaddedTimes == {<<"7", ":", "5", ":", "3">>, <<"-", "1", ":", "0", ":", "7">>}

Dates == WrittenDates \cup MalformedDates

Times == WrittenTimes \cup UnpaddedTimes \cup MalformedTimes

\* the query of a GET request: date, and time when the client gives it
DateTimeQueries ==
    {[date |-> d, time |-> t] : d \in Dates, t \in Times}
    \cup {[date |-> d] : d \in Dates}

\* lat, lon and system of a /houses query, each given or left out
HouseQueries ==
    {[lat |-> 52, lon |-> 13, system |-> "K"],
     [lat |-> 0 - 33, lon |-> 151],
     [lat |-> 95, lon |-> 400, system |-> "?"],
     [system |-> "W"]}

\* the planet names of /retrograde_motion bodies: "sun", "Sun", "SUN",
\* "mOoN", "Mars", "PLUTO", "Ceres", ""
PlanetNames ==
    {<<"s", "u", "n">>, <<"S", "u", "n">>, <<"S", "U", "N">>,
     <<"m", "O", "o", "N">>, <<"M", "a", "r", "s">>,
     <<"P", "L", "U", "T", "O">>, <<"C", "e", "r", "e", "s">>, <<>>}

BodyDates == {FmtDate(2025, 5, 10), FmtDate(2025, 10, 14)}

EclipseBodies ==
    {[date |-> d] : d \in BodyDates}
    \cup {[date |-> d, search_forward |-> f] : d \in BodyDates, f \in BOOLEAN}
    \cup {[date |-> d, latitude |-> 40, longitude |-> 0 - 74, search_forward |-> f] :
            d \in BodyDates, f \in BOOLEAN}
    \cup {[date |-> d, latitude |-> 40, longitude |-> 0 - 74] : d \in BodyDates}

SiderealBodies ==
    {[date |-> d, time_utc |-> t, type |-> k] :
        d \in BodyDates, t \in {FmtTime(16, 45, 0)}, k \in {"GST", "LST"}}
    \cup {[date |-> d, time_utc |-> t, longitude |-> 77, type |-> k] :
        d \in BodyDates, t \in {FmtTime(16, 45, 0)}, k \in {"GST", "LST"}}

DateTimeEndpoints == {"planets", "houses", "ayanamsa", "julian_day"}

Request(endpoint, args) == [endpoint |-> endpoint, args |-> args]

Requests ==
    {Request(e, q) : e \in {"planets", "ayanamsa", "julian_day"}, q \in DateTimeQueries}
    \cup {Request("houses", q @@ h) : q \in DateTimeQueries, h \in HouseQueries}
    \cup {Request("houses", q) : q \in DateTimeQueries}
    \cup {Request("retrograde_motion", [planet |-> n, date |-> d]) :
            n \in PlanetNames, d \in BodyDates}
    \cup {Request(e, b) : e \in {"solar_eclipse", "lunar_eclipse"}, b \in EclipseBodies}
    \cup {Request("sidereal_time", b) : b \in SiderealBodies}

\* the requests of the runs in which two workers serve at once
ConcurrentRequests ==
    {Request("planets", [date |-> FmtDate(2025, 5, 10)]),
     Request("planets", [date |-> FmtDate(2025, 5, 10), time |-> <<"1", "6", ":", "4", "5">>]),
     Request("houses", [date |-> FmtDate(2025, 5, 10), time |-> FmtTime(16, 45, 0),
                        lat |-> 52, lon |-> 13, system |-> "K"]),
     Request("ayanamsa", [date |-> FmtDate(7, 13, 31), time |-> FmtTime(25, 0, 61)]),
     Request("julian_day", [date |-> FmtDate(2025, 5, 10), time |-> FmtTime(0, 0, 0)]),
     Request("retrograde_motion", [planet |-> <<"S", "u", "n">>, date |-> FmtDate(2025, 5, 10)]),
     Request("solar_eclipse", [date |-> FmtDate(2025, 10, 14)]),
     Request("lunar_eclipse", [date |-> FmtDate(2025, 5, 10), latitude |-> 40,
                               longitude |-> 0 - 74, search_forward |-> FALSE]),
     Request("sidereal_time", [date |-> FmtDate(2025, 5, 10), time_utc |-> FmtTime(16, 45, 0),
                               longitude |-> 77, type |-> "LST"])}

(***************************************************************************)
(* The state: the installed pydantic, and for every worker of the HTTP     *)
(* layer the request it serves, where its handler stands, the handler's    *)
(* local variables, the ephemeris calls the handler has made, and the      *)
(* response.  The module main.py holds no variable of its own besides      *)
(* `app`.                                                                  *)
(***************************************************************************)
VARIABLES pydantic, pc, req, locals, calls, resp

vars == <<pydantic, pc, req, locals, calls, resp>>

Workers == {"w1", "w2"}

NoRequest == [endpoint |-> "none", args |-> [none |-> TRUE]]

NoResponse == [status |-> 0, body |-> [none |-> TRUE]]

NoLocals ==
    [params |-> [none |-> TRUE], ymd |-> <<>>, hms |-> <<>>,
     decimal_hour |-> DecimalHour(0, 0, 0), jd_ut |-> [jd |-> <<>>],
     next |-> 1, result |-> <<>>]

Init ==
    /\ pydantic \in {1, 2}
    /\ pc = [w \in Workers |-> "idle"]
    /\ req = [w \in Workers |-> NoRequest]
    /\ locals = [w \in Workers |-> NoLocals]
    /\ calls = [w \in Workers |-> <<>>]
    /\ resp = [w \in Workers |-> NoResponse]

(***************************************************************************)
(* Responses.                                                              *)
(***************************************************************************)
\* a handler's return value, sent with status 200
Ok(body) == [status |-> 200, body |-> body]

\* raise HTTPException(status_code=500, detail=f"<prefix>{str(e)}")
HTTPException500(prefix, msg) ==
    [status |-> 500, body |-> [detail |-> [prefix |-> prefix, msg |-> msg]]]

\* an exception no handler catches: the HTTP layer answers 500
\* "Internal Server Error" and the exception's text stays in the server log
Unhandled(exc) == [status |-> 500, body |-> [unhandled |-> exc]]

\* the HTTP layer's answer to a body that misses required fields
Unprocessable(missing) == [status |-> 422, body |-> [missing |-> missing]]

\* the detail prefix of each handler's except clause
ErrorPrefix(endpoint) ==
    CASE endpoint = "planets"    -> "Error calculating planetary positions: "
      [] endpoint = "houses"     -> "Error calculating houses: "
      [] endpoint = "ayanamsa"   -> "Error calculating ayanamsa: "
      [] endpoint = "julian_day" -> "Error calculating Julian Day: "

(***************************************************************************)
(* The library's outcomes: a call returns, or raises while the budget of   *)
(* failures per request lasts.                                             *)
(***************************************************************************)
Failed(log) == {i \in 1..Len(log) : ~log[i].ok}

Outcomes(w) == IF Cardinality(Failed(calls[w])) < MaxLibFailures
                 THEN {TRUE, FALSE} ELSE {TRUE}

(***************************************************************************)
(* Receiving a request: the HTTP layer binds the query of a GET request to *)
(* the handler's parameters, with their defaults, and parses the body of a *)
(* POST request into the handler's request class.                          *)
(***************************************************************************)
Param(args, name, default) == IF name \in DOMAIN args THEN args[name] ELSE default

\* the default of the `time` parameter, "00:00:00"
DefaultTime == <<"0", "0", ":", "0", "0", ":", "0", "0">>

BindQuery(r) ==
    IF r.endpoint = "houses"
      THEN [date   |-> r.args.date,
            time   |-> Param(r.args, "time", DefaultTime),
            lat    |-> Param(r.args, "lat", 0),
            lon    |-> Param(r.args, "lon", 0),
            system |-> Param(r.args, "system", "P")]
      ELSE [date |-> r.args.date,
            time |-> Param(r.args, "time", DefaultTime)]

RequestClass(endpoint) ==
    CASE endpoint = "retrograde_motion" -> RetrogradeMotionRequest
      [] endpoint = "solar_eclipse"     -> SolarEclipseRequest
      [] endpoint = "lunar_eclipse"     -> LunarEclipseRequest
      [] endpoint = "sidereal_time"     -> SiderealTimeRequest

Receive(w, r) ==
    /\ pc[w] = "idle"
    /\ req' = [req EXCEPT ![w] = r]
    /\ IF r.endpoint \in DateTimeEndpoints
         THEN /\ locals' = [locals EXCEPT ![w] = [NoLocals EXCEPT !.params = BindQuery(r)]]
              /\ pc' = [pc EXCEPT ![w] = "parse"]
              /\ resp' = resp
         ELSE LET parsed == Construct(RequestClass(r.endpoint), r.args, pydantic)
              IN  IF parsed.ok
                    THEN /\ locals' = [locals EXCEPT ![w] = [NoLocals EXCEPT !.params = parsed.obj]]
                         /\ pc' = [pc EXCEPT ![w] = r.endpoint]
                         /\ resp' = resp
                    ELSE /\ locals' = locals
                         /\ pc' = [pc EXCEPT ![w] = "done"]
                         /\ resp' = [resp EXCEPT ![w] = Unprocessable(parsed.missing)]
    /\ UNCHANGED <<pydantic, calls>>

(***************************************************************************)
(* get_planets, get_houses, get_ayanamsa, get_julian_day: the four         *)
(* handlers start with the same statements.                                *)
(***************************************************************************)
\* year, month, day = map(int, date.split('-'))
\* hour, minute, second = map(int, time.split(':'))
\* decimal_hour = hour + minute/60.0 + second/3600.0
ParseDateTime(w) ==
    /\ pc[w] = "parse"
    /\ LET ymd == UnpackThreeInts(Split(locals[w].params.date, "-"))
           hms == UnpackThreeInts(Split(locals[w].params.time, ":"))
           exc == IF ~ymd.ok THEN ymd ELSE hms
       IN  IF ymd.ok /\ hms.ok
             THEN /\ locals' = [locals EXCEPT
                                  ![w].ymd = ymd.val,
                                  ![w].hms = hms.val,
                                  ![w].decimal_hour =
                                      DecimalHour(hms.val[1], hms.val[2], hms.val[3])]
                  /\ pc' = [pc EXCEPT ![w] = "julday"]
                  /\ resp' = resp
             ELSE /\ locals' = locals
                  /\ pc' = [pc EXCEPT ![w] = "done"]
                  /\ resp' = [resp EXCEPT ![w] =
                                HTTPException500(ErrorPrefix(req[w].endpoint), exc.msg)]
    /\ UNCHANGED <<pydantic, req, calls>>

\* where each handler goes on after swe.julday
AfterJulday(endpoint) ==
    CASE endpoint = "planets"    -> "calc_ut"
      [] endpoint = "houses"     -> "houses"
      [] endpoint = "ayanamsa"   -> "get_ayanamsa"
      [] endpoint = "julian_day" -> "done"

\* jd_ut = swe.julday(year, month, day, decimal_hour); get_julian_day
\* returns {"jd_ut": jd_ut}
Julday(w) ==
    /\ pc[w] = "julday"
    /\ \E ok \in Outcomes(w) :
         LET l    == locals[w]
             call == SweCall("julday", <<l.ymd[1], l.ymd[2], l.ymd[3], l.decimal_hour>>, ok)
         IN  /\ calls' = [calls EXCEPT ![w] = Append(@, call)]
             /\ IF ok
                  THEN /\ locals' = [locals EXCEPT ![w].jd_ut = call.ret]
                       /\ pc' = [pc EXCEPT ![w] = AfterJulday(req[w].endpoint)]
                       /\ resp' = IF req[w].endpoint = "julian_day"
                                    THEN [resp EXCEPT ![w] = Ok([jd_ut |-> call.ret])]
                                    ELSE resp
                  ELSE /\ locals' = locals
                       /\ pc' = [pc EXCEPT ![w] = "done"]
                       /\ resp' = [resp EXCEPT ![w] =
                                     HTTPException500(ErrorPrefix(req[w].endpoint), call.ret)]
    /\ UNCHANGED <<pydantic, req>>

(***************************************************************************)
(* get_planets: the loop over planet_dict.                                 *)
(***************************************************************************)
\* planet_dict of get_planets, in the order of its items()
PlanetDict ==
    <<[name |-> "Sun", id |-> SUN], [name |-> "Moon", id |-> MOON],
      [name |-> "Mercury", id |-> MERCURY], [name |-> "Venus", id |-> VENUS],
      [name |-> "Mars", id |-> MARS], [name |-> "Jupiter", id |-> JUPITER],
      [name |-> "Saturn", id |-> SATURN], [name |-> "Uranus", id |-> URANUS],
      [name |-> "Neptune", id |-> NEPTUNE], [name |-> "Pluto", id |-> PLUTO]>>

\* the entry of a body whose position query returned ret
PositionEntry(ret) ==
    [longitude |-> ret[1], latitude |-> ret[2], distance |-> ret[3],
     longitude_speed |-> ret[4], latitude_speed |-> ret[5],
     distance_speed |-> ret[6]]

\* the entry of a body whose position query raised e
ErrorEntry(msg) == [error |-> msg]

\* a loop that queries a body again when its query raised
NextItemRetrying(i, ok) == IF ok THEN i + 1 ELSE i

\* the item the for loop takes after item i, whether the query of item i
\* returned or raised
NextItem(i, ok) == i + 1

\* `result` as one dict of the module, which every worker's handler fills
StoreResultInModule(loc, w, name, entry) ==
    [o \in DOMAIN loc |->
        [loc[o] EXCEPT !.result = Append(@, [name |-> name, entry |-> entry])]]

\* result[planet_name] = entry, in the handler's local dict `result`
StoreResult(loc, w, name, entry) ==
    [loc EXCEPT ![w].result = Append(@, [name |-> name, entry |-> entry])]

\* one pass of the loop body; after the last item, return result
CalcUt(w) ==
    /\ pc[w] = "calc_ut"
    /\ \E ok \in Outcomes(w) :
         LET l      == locals[w]
             item   == PlanetDict[l.next]
             call   == SweCall("calc_ut", <<l.jd_ut, item.id, FLG_SPEED>>, ok)
             entry  == IF ok THEN PositionEntry(call.ret) ELSE ErrorEntry(call.ret)
             stored == StoreResult(locals, w, item.name, entry)
             after  == NextItem(l.next, ok)
         IN  /\ calls' = [calls EXCEPT ![w] = Append(@, call)]
             /\ locals' = [stored EXCEPT ![w].next = after]
             /\ IF after > Len(PlanetDict)
                  THEN /\ pc' = [pc EXCEPT ![w] = "done"]
                       /\ resp' = [resp EXCEPT ![w] = Ok(stored[w].result)]
                  ELSE /\ pc' = pc
                       /\ resp' = resp
    /\ UNCHANGED <<pydantic, req>>

(***************************************************************************)
(* get_houses                                                              *)
(***************************************************************************)
\* the angles taken from the wrong places of ascmc
HousesResponseAnglesSwapped(cusps, ascmc) ==
    [cusps |-> cusps, ascendant |-> ascmc[2], midheaven |-> ascmc[1],
     armc |-> ascmc[3], vertex |-> ascmc[4]]

\* the dict get_houses returns
HousesResponse(cusps, ascmc) ==
    [cusps |-> cusps, ascendant |-> ascmc[1], midheaven |-> ascmc[2],
     armc |-> ascmc[3], vertex |-> ascmc[4]]

\* the arguments of swe.houses
HousesArgs(l) == <<l.jd_ut, l.params.lat, l.params.lon, l.params.system>>

\* cusps, ascmc = swe.houses(jd_ut, lat, lon, system)
Houses(w) ==
    /\ pc[w] = "houses"
    /\ \E ok \in Outcomes(w) :
         LET call == SweCall("houses", HousesArgs(locals[w]), ok)
         IN  /\ calls' = [calls EXCEPT ![w] = Append(@, call)]
             /\ resp' = [resp EXCEPT ![w] =
                           IF ok THEN Ok(HousesResponse(call.ret.cusps, call.ret.ascmc))
                           ELSE HTTPException500(ErrorPrefix("houses"), call.ret)]
    /\ pc' = [pc EXCEPT ![w] = "done"]
    /\ UNCHANGED <<pydantic, req, locals>>

(***************************************************************************)
(* get_ayanamsa                                                            *)
(***************************************************************************)
\* ayanamsa = swe.get_ayanamsa(jd_ut)
GetAyanamsa(w) ==
    /\ pc[w] = "get_ayanamsa"
    /\ \E ok \in Outcomes(w) :
         LET call == SweCall("get_ayanamsa", <<locals[w].jd_ut>>, ok)
         IN  /\ calls' = [calls EXCEPT ![w] = Append(@, call)]
             /\ resp' = [resp EXCEPT ![w] =
                           IF ok THEN Ok([ayanamsa |-> call.ret])
                           ELSE HTTPException500(ErrorPrefix("ayanamsa"), call.ret)]
    /\ pc' = [pc EXCEPT ![w] = "done"]
    /\ UNCHANGED <<pydantic, req, locals>>

(***************************************************************************)
(* get_retrograde_motion.  The handler reads request.planet_name and       *)
(* request.jd_ut, which RetrogradeMotionRequest does not declare, and      *)
(* builds a RetrogradeMotionResponse from is_retrograde alone.             *)
(***************************************************************************)
\* planet_dict of get_retrograde_motion: lower-case name -> body code
RetrogradePlanetDict ==
    {<<<<"s", "u", "n">>, SUN>>,
     <<<<"m", "o", "o", "n">>, MOON>>,
     <<<<"m", "e", "r", "c", "u", "r", "y">>, MERCURY>>,
     <<<<"v", "e", "n", "u", "s">>, VENUS>>,
     <<<<"m", "a", "r", "s">>, MARS>>,
     <<<<"j", "u", "p", "i", "t", "e", "r">>, JUPITER>>,
     <<<<"s", "a", "t", "u", "r", "n">>, SATURN>>,
     <<<<"u", "r", "a", "n", "u", "s">>, URANUS>>,
     <<<<"n", "e", "p", "t", "u", "n", "e">>, NEPTUNE>>,
     <<<<"p", "l", "u", "t", "o">>, PLUTO>>}

\* dict.get(key): the value, or None
DictGet(dict, key) ==
    IF \E p \in dict : p[1] = key
      THEN [found |-> TRUE, value |-> (CHOOSE p \in dict : p[1] = key)[2]]
      ELSE [found |-> FALSE, value |-> 0]

\* `not v` for the result of dict.get: None is falsy, and so is the integer 0
Falsy(v) == ~v.found \/ v.value = 0

\* retrograde = ret[0] < 180
RetrogradeOf(ret) == ret[1] < 180

\* what is answered for a value the handler returns or builds for a route
\* with a response_model: the value, or 500 when it lacks required fields
Shaped(cls, given, version) ==
    LET built == Construct(cls, given, version)
    IN  IF built.ok THEN Ok(built.obj) ELSE Unhandled(built.exc)

RetrogradeMotion(w) ==
    /\ pc[w] = "retrograde_motion"
    /\ LET request == locals[w].params
       IN  IF ~HasAttr(request, "planet_name")
             THEN /\ resp' = [resp EXCEPT ![w] = Unhandled("AttributeError")]
                  /\ calls' = calls
           ELSE LET planet_id == DictGet(RetrogradePlanetDict, Lower(request.planet_name))
                IN  IF Falsy(planet_id)
                      THEN /\ resp' = [resp EXCEPT ![w] =
                                         Shaped(RetrogradeMotionResponse,
                                                [error |-> "Invalid planet name"], pydantic)]
                           /\ calls' = calls
                    ELSE IF ~HasAttr(request, "jd_ut")
                      THEN /\ resp' = [resp EXCEPT ![w] = Unhandled("AttributeError")]
                           /\ calls' = calls
                    ELSE \E ok \in Outcomes(w) :
                           LET call == SweCall("calc", <<request.jd_ut, planet_id.value>>, ok)
                           IN  /\ calls' = [calls EXCEPT ![w] = Append(@, call)]
                               /\ resp' = [resp EXCEPT ![w] =
                                             IF ok
                                               THEN Shaped(RetrogradeMotionResponse,
                                                           [is_retrograde |-> RetrogradeOf(call.ret)],
                                                           pydantic)
                                               ELSE Unhandled("swisseph.Error")]
    /\ pc' = [pc EXCEPT ![w] = "done"]
    /\ UNCHANGED <<pydantic, req, locals>>

(***************************************************************************)
(* get_solar_eclipse, get_lunar_eclipse: each builds its response class    *)
(* from is_eclipse alone, a field the class does not declare.              *)
(***************************************************************************)
SolarEclipse(w) ==
    /\ pc[w] = "solar_eclipse"
    /\ LET is_eclipse == FALSE
       IN  resp' = [resp EXCEPT ![w] =
                      Shaped(SolarEclipseResponse, [is_eclipse |-> is_eclipse], pydantic)]
    /\ pc' = [pc EXCEPT ![w] = "done"]
    /\ UNCHANGED <<pydantic, req, locals, calls>>

LunarEclipse(w) ==
    /\ pc[w] = "lunar_eclipse"
    /\ LET is_eclipse == FALSE
       IN  resp' = [resp EXCEPT ![w] =
                      Shaped(LunarEclipseResponse, [is_eclipse |-> is_eclipse], pydantic)]
    /\ pc' = [pc EXCEPT ![w] = "done"]
    /\ UNCHANGED <<pydantic, req, locals, calls>>

(***************************************************************************)
(* get_sidereal_time: reads request.jd_ut, which SiderealTimeRequest does  *)
(* not declare.                                                            *)
(***************************************************************************)
SiderealTime(w) ==
    /\ pc[w] = "sidereal_time"
    /\ LET request == locals[w].params
       IN  IF ~HasAttr(request, "jd_ut")
             THEN /\ resp' = [resp EXCEPT ![w] = Unhandled("AttributeError")]
                  /\ calls' = calls
           ELSE \E ok \in Outcomes(w) :
                  LET call == SweCall("sidtime", <<request.jd_ut>>, ok)
                  IN  /\ calls' = [calls EXCEPT ![w] = Append(@, call)]
                      /\ resp' = [resp EXCEPT ![w] =
                                    IF ok
                                      THEN Shaped(SiderealTimeResponse,
                                                  [sidereal_time |-> call.ret], pydantic)
                                      ELSE Unhandled("swisseph.Error")]
    /\ pc' = [pc EXCEPT ![w] = "done"]
    /\ UNCHANGED <<pydantic, req, locals, calls>>

(***************************************************************************)
(* The response is sent and the worker is free again: nothing of the       *)
(* request is kept.                                                        *)
(***************************************************************************)
Respond(w) ==
    /\ pc[w] = "done"
    /\ pc' = [pc EXCEPT ![w] = "idle"]
    /\ req' = [req EXCEPT ![w] = NoRequest]
    /\ locals' = [locals EXCEPT ![w] = NoLocals]
    /\ calls' = [calls EXCEPT ![w] = <<>>]
    /\ resp' = [resp EXCEPT ![w] = NoResponse]
    /\ pydantic' = pydantic

(***************************************************************************)
(* The specifications: one worker serving any request, and two workers     *)
(* serving at once, their handlers' steps interleaved.                     *)
(***************************************************************************)
Handle(w) ==
    \/ ParseDateTime(w)
    \/ Julday(w)
    \/ CalcUt(w)
    \/ Houses(w)
    \/ GetAyanamsa(w)
    \/ RetrogradeMotion(w)
    \/ SolarEclipse(w)
    \/ LunarEclipse(w)
    \/ SiderealTime(w)
    \/ Respond(w)

Next ==
    \/ \E r \in Requests : Receive("w1", r)
    \/ Handle("w1")

Spec == Init /\ [][Next]_vars

NextConcurrent ==
    \E w \in Workers :
        \/ \E r \in ConcurrentRequests : Receive(w, r)
        \/ Handle(w)

SpecConcurrent == Init /\ [][NextConcurrent]_vars

(***************************************************************************)
(* The claims.                                                             *)
(***************************************************************************)
\* the handler of worker w has finished the request req[w]
Finished(w, endpoints) == pc[w] = "done" /\ req[w].endpoint \in endpoints

\* the request reached its handler: its body had the fields its class requires
Reached(w) == resp[w].status # 422

\* the position queries in a log
PositionQueries(log) == {i \in 1..Len(log) : log[i].fn \in {"calc", "calc_ut"}}

\* the ten supported names, lower-case, with their codes
SupportedBodies == RetrogradePlanetDict

IsSupported(name) == \E p \in SupportedBodies : p[1] = Lower(name)

CodeOf(name) == (CHOOSE p \in SupportedBodies : p[1] = Lower(name))[2]

\* C1: in POST /retrograde_motion a name that is one of the ten supported
\* names, in any letter-casing, leads to the position query with that body's
\* code (0 for the Sun), and every other name to an unknown-body client (4xx)
\* error.
C1_BodyLookup ==
    \A w \in Workers :
        Finished(w, {"retrograde_motion"}) /\ Reached(w) =>
            IF IsSupported(req[w].args.planet)
              THEN \E i \in PositionQueries(calls[w]) :
                       calls[w][i].args[2] = CodeOf(req[w].args.planet)
              ELSE resp[w].status \in 400..499

\* C2: a POST /retrograde_motion request for a supported body whose library
\* call does not fail is answered with is_retrograde true exactly when the
\* longitude speed the library returned is below 0.
C2_RetrogradeBySpeed ==
    \A w \in Workers :
        (/\ Finished(w, {"retrograde_motion"}) /\ Reached(w)
         /\ IsSupported(req[w].args.planet)
         /\ Failed(calls[w]) = {})
        => /\ resp[w].status = 200
           /\ \E i \in PositionQueries(calls[w]) :
                  resp[w].body.is_retrograde = (calls[w][i].ret[4] < 0)

\* C3: every request to POST /solar_eclipse or POST /lunar_eclipse, with or
\* without latitude/longitude and in either search direction, is answered
\* with the fixed "no eclipse" response, eclipse type "None", never an error.
C3_EclipseStub ==
    \A w \in Workers :
        Finished(w, {"solar_eclipse", "lunar_eclipse"}) /\ Reached(w) =>
            /\ resp[w].status = 200
            /\ resp[w].body.eclipse_type = "None"

\* a string that does not split on sep into exactly three integer tokens
Malformed(str, sep) ==
    LET tokens == Split(str, sep)
    IN  ~(Len(tokens) = 3 /\ \A i \in 1..3 : IsIntLiteral(tokens[i]))

\* the time of a GET request, "00:00:00" when it gives none
TimeOf(r) == IF "time" \in DOMAIN r.args THEN r.args.time ELSE FmtTime(0, 0, 0)

\* C4: in GET /planets, /houses, /ayanamsa and /julian_day a malformed date
\* or time is answered with a client (4xx) error that names the offending
\* field, and the ephemeris library is not called.
C4_MalformedDateTime ==
    \A w \in Workers :
        (/\ Finished(w, DateTimeEndpoints)
         /\ Malformed(req[w].args.date, "-") \/ Malformed(TimeOf(req[w]), ":"))
        => /\ resp[w].status \in 400..499
           /\ resp[w].body.field =
                 (IF Malformed(req[w].args.date, "-") THEN "date" ELSE "time")
           /\ calls[w] = <<>>

\* C5: when a call to the ephemeris library failed, the request is answered
\* with a 5xx error carrying the library's message; GET /planets never answers
\* with a success in which a body's entry is an error placeholder.
C5_LibraryFailuresSurfaced ==
    \A w \in Workers :
        pc[w] = "done" /\ Failed(calls[w]) # {} =>
            /\ resp[w].status \in 500..599
            /\ \E i \in Failed(calls[w]) : resp[w].body.detail.msg = calls[w][i].ret

\* "<H>h <M>m <S>s" of d degrees, d a fraction in units of 1/240 degree:
\* H = floor(d/15), M = floor((d mod 15)*4), S = floor((((d mod 15)*4) mod 1)*60)
HmsString(d) ==
    [h |-> d.num \div 3600, m |-> (d.num % 3600) \div 60, s |-> d.num % 60]

\* C6: every POST /sidereal_time request is answered with the sidereal time d
\* the library returned, in decimal degrees, and with the string
\* "<H>h <M>m <S>s" formatted from d by truncation.
C6_SiderealTimeResponse ==
    \A w \in Workers :
        Finished(w, {"sidereal_time"}) /\ Reached(w) =>
            /\ resp[w].status = 200
            /\ \E i \in 1..Len(calls[w]) :
                   /\ calls[w][i].fn = "sidtime"
                   /\ resp[w].body.sidereal_time_deg = calls[w][i].ret
                   /\ resp[w].body.sidereal_time = HmsString(calls[w][i].ret)

\* the handler of worker w is past its Julian Day conversion
PastJulday(w) ==
    /\ req[w].endpoint \in DateTimeEndpoints
    /\ pc[w] \in {"calc_ut", "houses", "get_ayanamsa", "done"}
    /\ ~Malformed(req[w].args.date, "-") /\ ~Malformed(TimeOf(req[w]), ":")

\* the Julian Day conversions in a log
JuldayCalls(log) == {i \in 1..Len(log) : log[i].fn = "julday"}

\* C7: in each of GET /planets, /houses, /ayanamsa and /julian_day, for a
\* date "Y-M-D" and a time "h:m:s" (00:00:00 when the time is omitted), the
\* Julian Day conversion is called once, first, with exactly
\* (Y, M, D, h + m/60 + s/3600), whatever the ranges of the six numbers.
C7_TimeNormalization ==
    \A w \in Workers :
        PastJulday(w) =>
            \A y \in Years, mo \in Months, d \in Days :
                req[w].args.date = FmtDate(y, mo, d) =>
                    \A h \in Hours \cup {0}, mi \in Minutes \cup {0}, s \in Seconds \cup {0} :
                        TimeOf(req[w]) = FmtTime(h, mi, s) =>
                            /\ JuldayCalls(calls[w]) = {1}
                            /\ calls[w][1].args =
                                 <<y, mo, d, [num |-> 3600 * h + 60 * mi + s, den |-> 3600]>>

\* a /julian_day request with month 13, hour 25 and second 61 was converted
\* and answered
C7_Witness ==
    /\ Finished("w1", {"julian_day"})
    /\ req["w1"].args = [date |-> FmtDate(2025, 13, 31), time |-> FmtTime(25, 45, 61)]
    /\ resp["w1"].status = 200
    /\ calls["w1"][1].args[4].num = 92761

\* C8: when the library's house query of a GET /houses request succeeds, the
\* response's cusps are the library's cusps, in order, its ascendant,
\* midheaven, armc and vertex are the library's first four angles, and the
\* library was given lat, lon and the house-system code (default "P") as
\* received.
C8_HousePassThrough ==
    \A w \in Workers :
        \A i \in 1..Len(calls[w]) :
            (Finished(w, {"houses"}) /\ calls[w][i].fn = "houses" /\ calls[w][i].ok)
            => /\ resp[w].status = 200
               /\ resp[w].body.cusps = calls[w][i].ret.cusps
               /\ resp[w].body.ascendant = calls[w][i].ret.ascmc[1]
               /\ resp[w].body.midheaven = calls[w][i].ret.ascmc[2]
               /\ resp[w].body.armc = calls[w][i].ret.ascmc[3]
               /\ resp[w].body.vertex = calls[w][i].ret.ascmc[4]
               /\ calls[w][i].args[2] = Param(req[w].args, "lat", 0)
               /\ calls[w][i].args[3] = Param(req[w].args, "lon", 0)
               /\ calls[w][i].args[4] = Param(req[w].args, "system", "P")

\* a /houses request with latitude 95, longitude 400 and house system "?"
\* was forwarded and answered with the library's twelve cusps
C8_Witness ==
    /\ Finished("w1", {"houses"})
    /\ "lat" \in DOMAIN req["w1"].args /\ req["w1"].args.lat = 95
    /\ req["w1"].args.system = "?"
    /\ resp["w1"].status = 200
    /\ Len(resp["w1"].body.cusps) = 12
    /\ calls["w1"][2].args[4] = "?"

\* C9: while a request is handled no ephemeris call is issued twice, GET
\* /planets issues at most ten position queries, one per body, each with
\* the speed flag, and a call that failed is not issued again.
C9_NoRetries ==
    \A w \in Workers :
        LET log == calls[w]
        IN  /\ \A i, j \in 1..Len(log) :
                   i < j => ~(log[i].fn = log[j].fn /\ log[i].args = log[j].args)
            /\ Cardinality(PositionQueries(log)) <= 10
            /\ \A i \in PositionQueries(log) :
                   /\ log[i].args[3] = FLG_SPEED
                   /\ \A j \in PositionQueries(log) : i # j => log[i].args[2] # log[j].args[2]

\* a /planets request was answered after ten position queries, the Sun's
\* having failed
C9_Witness ==
    /\ Finished("w1", {"planets"})
    /\ Cardinality(PositionQueries(calls["w1"])) = 10
    /\ \E i \in Failed(calls["w1"]) : calls["w1"][i].fn = "calc_ut" /\ calls["w1"][i].args[2] = SUN

\* what belongs to worker w
Own(w) == <<pc[w], req[w], locals[w], calls[w], resp[w]>>

\* C10: with two requests handled at once, in any interleaving, a step of
\* one request's handler changes nothing that belongs to the other request
\* and nothing the workers share, and two requests that are the same and see
\* the same library outcomes get the same response.
C10_RequestIsolation ==
    /\ [](\A w, o \in Workers :
            (pc[w] = "done" /\ pc[o] = "done" /\ req[w] = req[o] /\ calls[w] = calls[o])
            => resp[w] = resp[o])
    /\ [][/\ pydantic' = pydantic
          /\ \E w \in Workers : \A o \in Workers \ {w} : Own(o)' = Own(o)]_vars

\* both workers are inside the loop of get_planets at once, at different
\* items, one of them after a failed query
C10_Witness ==
    /\ pc["w1"] = "calc_ut" /\ pc["w2"] = "calc_ut"
    /\ Len(locals["w1"].result) = 3 /\ Len(locals["w2"].result) = 7
    /\ Failed(calls["w1"]) # {} /\ Failed(calls["w2"]) = {}

=============================================================================
